---- MODULE Spec2Model ----
(***************************************************************************)
(* Model of src/backup_app.cpp: class BackupApp, a directory backup tool   *)
(* with a full backup (create_backup) and an incremental backup            *)
(* (incremental_backup) that keeps an in-memory ledger (backup_history)    *)
(* and an append-only log file (backup_history.txt).                       *)
(*                                                                         *)
(* A path is a sequence of components.  A directory tree is a function     *)
(* from the relative paths of Paths to a content: 0 when the file is       *)
(* absent, a value of Contents when it holds those bytes.                  *)
(*                                                                         *)
(* Environment assumptions of the model (not of the code):                 *)
(*  - every invocation that reads the clock does so in a later second      *)
(*    than the previous one, so current_timestamp() never returns the same *)
(*    string twice and a timestamp is the ordinal of its second;           *)
(*  - the source tree does not change while an invocation runs;            *)
(*  - the per-file faults are unreadable source files (calculate_md5       *)
(*    throws) and destination paths that cannot be written (copy_file and  *)
(*    create_hard_link throw); create_directories does not fail;           *)
(*  - the files of a snapshot directory can be read;                       *)
(*  - the process is not restarted: backup_history lives as long as the    *)
(*    behaviour, and an uncaught exception ends the process for good.      *)
(***************************************************************************)
EXTENDS Integers, Sequences, FiniteSets, TLC

\* Number of distinct seconds in which a snapshot directory is created.
MaxTime == 2

\* Number of events of the environment in a behaviour: the changes the user
\* makes to the source tree and the per-file faults (a file that cannot be
\* read, a destination that cannot be written).
MaxEvents == 2

\* Relative paths of the files a tree may hold: one in the root, one in a
\* directory, one two directories deep whose last two components equal the
\* second path.
Paths == {<<"a">>, <<"d", "a">>, <<"e", "d", "a">>}

\* Byte contents a file may hold (0 stands for "no such file").
Contents == {1, 2}

\* Byte contents of the files of the source tree at the start; the user's
\* edits write any content.
InitContents == {1}

\* The two directories given to every invocation.
source_dir == <<"src">>
backup_dir == <<"bak">>

\* Names of the snapshot directories, "backup_" + current_timestamp(), in
\* the order of their seconds (the format %Y%m%d_%H%M%S is zero padded, so
\* the lexicographic order of the names is the order of the seconds).
SnapNames ==
    << "backup_20250101_000001", "backup_20250101_000002",
       "backup_20250101_000003", "backup_20250101_000004",
       "backup_20250101_000005" >>

SnapName(t) == SnapNames[t]

SnapDir(t) == backup_dir \o <<SnapName(t)>>

VARIABLES
    srcExists,       \* fs::exists(source_dir)
    source,          \* the source tree
    rootExists,      \* backup_dir exists
    snaps,           \* timestamp -> tree, one entry per snapshot directory
    history_log,     \* the lines of backup_dir/backup_history.txt
    backup_history,  \* BackupApp::backup_history
    clock,           \* the second of the last current_timestamp() call
    running,         \* the process is in BackupApp::run's loop
    events,          \* the number of edits and faults so far
    last             \* what the last step was, and what it reported

vars == << srcExists, source, rootExists, snaps, history_log,
           backup_history, clock, running, events, last >>

----------------------------------------------------------------------------
(* Paths and trees *)

EmptyTree == [p \in Paths |-> 0]

Files(tree) == {p \in Paths : tree[p] # 0}

\* fs::relative(path, base) for a base that is a prefix of path.
relative(path, base) == SubSeq(path, Len(base) + 1, Len(path))

\* fs::path::parent_path
parent_path(path) == SubSeq(path, 1, Len(path) - 1)

\* The orders in which a directory iteration may list the files.  The
\* order is unspecified; the code observes it only through std::find_if,
\* which takes the first entry that matches, and two entries can match the
\* same relative path only if they lie in different directories: the orders
\* below list those two files either way round.
Orders ==
    { << <<"a">>, <<"d", "a">>, <<"e", "d", "a">> >>,
      << <<"a">>, <<"e", "d", "a">>, <<"d", "a">> >> }

\* The sets of at most n elements of S.
UpTo(S, n) == {X \in SUBSET S : Cardinality(X) <= n}

\* calculate_md5: the digest of a file's bytes; equal bytes give equal
\* digests and the contents of the model give different ones.
calculate_md5(c) == <<"md5", c>>

\* scan_directory: one FileInfo per regular file under dir, in the order of
\* the iteration; a file whose digest cannot be computed is left out.
scan_directory(dir, tree, order, bad) ==
    LET Keep(p) == tree[p] # 0 /\ p \notin bad
        Info(p) == [path |-> dir \o p, md5 |-> calculate_md5(tree[p])]
        all == [i \in 1..Len(order) |-> Info(order[i])]
        Kept(info) == Keep(relative(info.path, dir))
    IN  SelectSeq(all, Kept)

\* The relative paths of an inventory scanned under dir.
RelPaths(files, dir) == {relative(files[i].path, dir) : i \in 1..Len(files)}

\* The set of existing snapshot directories, and the last one by name.
backups == DOMAIN snaps

Latest(S) == CHOOSE t \in S : \A u \in S : u <= t

\* The tree of the latest snapshot directory, if there is one.
LatestTree == IF backups = {} THEN EmptyTree ELSE snaps[Latest(backups)]

Put(f, t, tree) == [u \in DOMAIN f \cup {t} |-> IF u = t THEN tree ELSE f[u]]

----------------------------------------------------------------------------
(* What a step reports *)

Report(op, outcome) ==
    [ op |-> op, outcome |-> outcome, prior |-> 0, dest |-> 0,
      files_to_backup |-> {}, copied |-> {}, linked |-> {}, fallback |-> {},
      faults |-> FALSE, linkOK |-> TRUE ]

TypeOK ==
    /\ srcExists \in BOOLEAN
    /\ source \in [Paths -> Contents \cup {0}]
    /\ rootExists \in BOOLEAN
    /\ DOMAIN snaps \subseteq 1..MaxTime
    /\ \A t \in DOMAIN snaps : snaps[t] \in [Paths -> Contents \cup {0}]
    /\ clock \in 0..MaxTime
    /\ running \in BOOLEAN
    /\ events \in 0..MaxEvents
    /\ Len(backup_history) <= MaxTime
    /\ Len(history_log) <= MaxTime

Init ==
    /\ srcExists \in BOOLEAN
    /\ source \in [Paths -> InitContents \cup {0}]
    /\ ~srcExists => source = EmptyTree
    /\ events = 0
    /\ rootExists \in BOOLEAN
    /\ snaps = << >>
    /\ history_log = << >>
    /\ backup_history = << >>
    /\ clock = 0
    /\ running = TRUE
    /\ last = Report("start", "none")

----------------------------------------------------------------------------
(* The environment: the user's edits of the source tree *)

WriteSourceFile(p, c) ==
    /\ events < MaxEvents
    /\ events' = events + 1
    /\ srcExists
    /\ source[p] # c
    /\ source' = [source EXCEPT ![p] = c]
    /\ last' = Report("env", "none")
    /\ UNCHANGED << srcExists, rootExists, snaps, history_log,
                    backup_history, clock, running >>

DeleteSourceFile(p) ==
    /\ events < MaxEvents
    /\ events' = events + 1
    /\ srcExists
    /\ source[p] # 0
    /\ source' = [source EXCEPT ![p] = 0]
    /\ last' = Report("env", "none")
    /\ UNCHANGED << srcExists, rootExists, snaps, history_log,
                    backup_history, clock, running >>

RemoveSourceRoot ==
    /\ events < MaxEvents
    /\ events' = events + 1
    /\ srcExists
    /\ srcExists' = FALSE
    /\ source' = EmptyTree
    /\ last' = Report("env", "none")
    /\ UNCHANGED << rootExists, snaps, history_log, backup_history, clock,
                    running >>

CreateSourceRoot ==
    /\ events < MaxEvents
    /\ events' = events + 1
    /\ ~srcExists
    /\ srcExists' = TRUE
    /\ source' = EmptyTree
    /\ last' = Report("env", "none")
    /\ UNCHANGED << rootExists, snaps, history_log, backup_history, clock,
                    running >>

----------------------------------------------------------------------------
(* create_backup *)

\* A ledger that puts the new record first.
push_front(history, backup_info) == <<backup_info>> \o history

\* backup_history.push_back(backup_info)
push_back(history, backup_info) == Append(history, backup_info)

\* A source check that comes after the snapshot directory is created.
MissingSource_AfterMkdir(entry) ==
    /\ running
    /\ ~srcExists
    /\ clock < MaxTime
    /\ clock' = clock + 1
    /\ rootExists' = TRUE
    /\ snaps' = Put(snaps, clock + 1, EmptyTree)
    /\ last' = Report(entry, "failure")
    /\ UNCHANGED << srcExists, source, history_log, backup_history, running,
                    events >>

\* if (!fs::exists(source_dir)) return false;
MissingSource(entry) ==
    /\ running
    /\ ~srcExists
    /\ last' = Report(entry, "failure")
    /\ UNCHANGED << srcExists, source, rootExists, snaps, history_log,
                    backup_history, clock, running, events >>

\* The rest of create_backup: the snapshot directory, the scan, the copy
\* loop, the record and the log line.  (Each \E x \in {e} names the value
\* of e, as a local variable of the code does.)
FullBackup(entry, order, bad, wfail) ==
    /\ running
    /\ srcExists
    /\ clock < MaxTime
    /\ \E timestamp \in {clock + 1} :
       \E source_files \in {scan_directory(source_dir, source, order, bad)} :
       \* for (file_info : source_files) copy_file(source -> dest)
       \E copied \in {RelPaths(source_files, source_dir) \ wfail} :
       \E dest \in {[p \in Paths |-> IF p \in copied THEN source[p] ELSE 0]} :
       \E backup_info \in
              {[ timestamp |-> timestamp,
                 backup_path |-> SnapDir(timestamp),
                 file_count |-> Len(source_files),
                 copied_files |-> Cardinality(copied),
                 source_dir |-> source_dir,
                 is_incremental |-> FALSE,
                 based_on |-> "" ]} :
           /\ clock' = timestamp
           /\ rootExists' = TRUE
           /\ snaps' = Put(snaps, timestamp, dest)
           /\ backup_history' = push_back(backup_history, backup_info)
           /\ history_log' =
                  Append(history_log,
                         [ timestamp |-> timestamp, kind |-> "full",
                           copied |-> Cardinality(copied),
                           total |-> Len(source_files) ])
           /\ last' =
                  [ op |-> entry, outcome |-> "success", prior |-> 0,
                    dest |-> timestamp,
                    files_to_backup |-> RelPaths(source_files, source_dir),
                    copied |-> copied, linked |-> {}, fallback |-> {},
                    faults |-> (bad \cup wfail # {}), linkOK |-> TRUE ]
    /\ events' = events + Cardinality(bad) + Cardinality(wfail)
    /\ UNCHANGED << srcExists, source, running >>

\* The faults one invocation may meet: unreadable source files and
\* destinations that cannot be written, within what is left of MaxEvents.
Unreadable == UpTo(Files(source), MaxEvents - events)

Unwritable(bad, tree) ==
    UpTo((Files(source) \ bad) \cup Files(tree),
         MaxEvents - events - Cardinality(bad))

create_backup ==
    \/ MissingSource("create_backup")
    \/ \E order \in Orders :
       \E bad \in Unreadable :
       \E wfail \in Unwritable(bad, EmptyTree) :
           FullBackup("create_backup", order, bad, wfail)

----------------------------------------------------------------------------
(* incremental_backup *)

\* std::find_if over backup_files: the index of the first entry whose path,
\* taken relative to the parent of its parent directory, equals
\* relative_path; 0 stands for backup_files.end().
find_if(backup_files, relative_path) ==
    LET Match(info) ==
            relative(info.path, parent_path(parent_path(info.path)))
                = relative_path
        hits == {i \in 1..Len(backup_files) : Match(backup_files[i])}
    IN  IF hits = {} THEN 0
        ELSE CHOOSE i \in hits : \A j \in hits : i <= j

\* The first loop: the source files that are new or modified.
files_to_backup(source_files, backup_files) ==
    LET Changed(source_file) ==
            LET relative_path == relative(source_file.path, source_dir)
                it == find_if(backup_files, relative_path)
            IN  it = 0 \/ source_file.md5 # backup_files[it].md5
    IN  SelectSeq(source_files, Changed)

\* need_copy of the last loop, for one file of the latest backup.
need_copy(backup_file, latest_backup, source_files) ==
    LET relative_path == relative(backup_file.path, latest_backup)
    IN  ~ \E i \in 1..Len(source_files) :
            /\ relative(source_files[i].path, source_dir) = relative_path
            /\ source_files[i].md5 = backup_file.md5

\* fs::directory_iterator(backup_dir) throws when backup_dir does not exist;
\* nothing catches it, so it leaves incremental_backup, run and main.
IncrMissingRoot ==
    /\ running
    /\ srcExists
    /\ ~rootExists
    /\ running' = FALSE
    /\ last' = Report("incremental_backup", "exception")
    /\ UNCHANGED << srcExists, source, rootExists, snaps, history_log,
                    backup_history, clock, events >>

\* An incremental backup that gives up when there is no prior snapshot.
IncrNoPrior_GivesUp(order, bad, wfail) ==
    /\ running
    /\ srcExists
    /\ rootExists
    /\ backups = {}
    /\ last' = Report("incremental_backup", "failure")
    /\ UNCHANGED << srcExists, source, rootExists, snaps, history_log,
                    backup_history, clock, running, events >>

\* if (backups.empty()) return create_backup(source_dir, backup_dir);
IncrNoPrior(order, bad, wfail) ==
    /\ rootExists
    /\ backups = {}
    /\ FullBackup("incremental_backup", order, bad, wfail)

\* if (files_to_backup.empty()) return false;
IncrNoChanges(order, bad) ==
    /\ running
    /\ srcExists
    /\ rootExists
    /\ backups # {}
    /\ \E latest \in {Latest(backups)} :
       \E source_files \in {scan_directory(source_dir, source, order, bad)} :
       \E backup_files \in
              {scan_directory(SnapDir(latest), snaps[latest], order, {})} :
           /\ Len(files_to_backup(source_files, backup_files)) = 0
           /\ last' =
                  [Report("incremental_backup", "no_changes")
                      EXCEPT !.prior = latest, !.faults = (bad # {})]
    /\ events' = events + Cardinality(bad)
    /\ UNCHANGED << srcExists, source, rootExists, snaps, history_log,
                    backup_history, clock, running >>

\* The rest of incremental_backup: the snapshot directory, the copy loop,
\* the hard-link loop with its copy fallback, the record and the log line.
IncrMaterialize(order, bad, wfail, linkOK) ==
    /\ running
    /\ srcExists
    /\ rootExists
    /\ backups # {}
    /\ clock < MaxTime
    /\ \E latest \in {Latest(backups)} :
       \E latest_backup \in {SnapDir(latest)} :
       \E source_files \in {scan_directory(source_dir, source, order, bad)} :
       \E backup_files \in
              {scan_directory(latest_backup, snaps[latest], order, {})} :
       \E to_backup \in {files_to_backup(source_files, backup_files)} :
       \E timestamp \in {clock + 1} :
       \* for (file_info : files_to_backup) copy_file(source -> dest)
       \E copied \in {RelPaths(to_backup, source_dir) \ wfail} :
       \E afterCopy \in
              {[p \in Paths |-> IF p \in copied THEN source[p] ELSE 0]} :
       \* for (backup_file : backup_files) if (need_copy) ...
       \E attempted \in
              {{ relative(backup_files[i].path, latest_backup) :
                   i \in { j \in 1..Len(backup_files) :
                             need_copy(backup_files[j], latest_backup,
                                       source_files) } }} :
       \* create_hard_link fails when the file system cannot link (linkOK is
       \* false) and when the destination already exists
       \E linked \in
              {{p \in attempted :
                    linkOK /\ afterCopy[p] = 0 /\ p \notin wfail}} :
       \* catch (...) copy_file(backup -> dest, overwrite_existing)
       \E fallback \in {(attempted \ linked) \ wfail} :
       \E dest \in
              {[p \in Paths |->
                   IF p \in linked \cup fallback
                   THEN snaps[latest][p] ELSE afterCopy[p]]} :
       \E backup_info \in
              {[ timestamp |-> timestamp,
                 backup_path |-> SnapDir(timestamp),
                 file_count |-> Len(source_files),
                 copied_files |-> Cardinality(copied),
                 source_dir |-> source_dir,
                 is_incremental |-> TRUE,
                 based_on |-> SnapName(latest) ]} :
           /\ Len(to_backup) # 0
           /\ clock' = timestamp
           /\ snaps' = Put(snaps, timestamp, dest)
           /\ backup_history' = push_back(backup_history, backup_info)
           /\ history_log' =
                  Append(history_log,
                         [ timestamp |-> timestamp, kind |-> "incremental",
                           copied |-> Cardinality(copied),
                           total |-> Len(to_backup) ])
           /\ last' =
                  [ op |-> "incremental_backup", outcome |-> "success",
                    prior |-> latest, dest |-> timestamp,
                    files_to_backup |-> RelPaths(to_backup, source_dir),
                    copied |-> copied, linked |-> linked,
                    fallback |-> fallback,
                    faults |-> (bad \cup wfail # {}), linkOK |-> linkOK ]
    /\ events' = events + Cardinality(bad) + Cardinality(wfail)
    /\ UNCHANGED << srcExists, source, rootExists, running >>

incremental_backup ==
    \/ MissingSource("incremental_backup")
    \/ IncrMissingRoot
    \/ \E order \in Orders :
       \E bad \in Unreadable :
           IncrNoChanges(order, bad)
    \/ \E order \in Orders :
       \E bad \in Unreadable :
       \E wfail \in Unwritable(bad, EmptyTree) :
           IncrNoPrior(order, bad, wfail)
    \/ \E order \in Orders :
       \E bad \in Unreadable :
       \E wfail \in Unwritable(bad, LatestTree) :
       \E linkOK \in BOOLEAN :
           IncrMaterialize(order, bad, wfail, linkOK)

----------------------------------------------------------------------------

Next ==
    \/ \E p \in Paths : \E c \in Contents : WriteSourceFile(p, c)
    \/ \E p \in Paths : DeleteSourceFile(p)
    \/ RemoveSourceRoot
    \/ CreateSourceRoot
    \/ create_backup
    \/ incremental_backup

Spec == Init /\ [][Next]_vars

----------------------------------------------------------------------------
(* The claims.  A state right after an invocation has last.op naming the    *)
(* entry point; the source tree and the prior snapshot are then the ones    *)
(* the invocation saw, since neither changes while it runs.                 *)

BackupOps == {"create_backup", "incremental_backup"}

\* The last step was an incremental backup that found a prior snapshot.
IncrRan == last.op = "incremental_backup" /\ last.prior # 0

\* ... and went on to create a new snapshot directory.
IncrDone == IncrRan /\ last.outcome = "success"

PriorTree == snaps[last.prior]

NewTree == snaps[last.dest]

\* The paths an incremental run took from the prior snapshot.
FromPrior == last.linked \cup last.fallback

\* C1: in an incremental run that creates a snapshot, every file of the
\* source is written by exactly one of the two steps: copied from the
\* source, or linked (or fallback-copied) from the prior snapshot.
C1_ExactlyOneStep ==
    (IncrDone /\ ~last.faults) =>
        \A p \in Files(source) : (p \in last.copied) # (p \in FromPrior)

\* C2: a source file whose relative path and bytes equal those of a file of
\* the prior snapshot is not among the files copied from the source, at any
\* depth.
C2_UnchangedNotCopied ==
    IncrRan =>
        \A p \in Files(source) :
            source[p] = PriorTree[p] =>
                p \notin last.files_to_backup /\ p \notin last.copied

\* C3: a source file with no file, or a file of other bytes, at its
\* relative path in the prior snapshot is classified as to be copied and is
\* copied from the source, whatever else the prior snapshot holds.
C3_ChangedCopied ==
    (IncrRan /\ ~last.faults) =>
        \A p \in Files(source) :
            source[p] # PriorTree[p] =>
                p \in last.files_to_backup /\ p \in last.copied

\* C4: after a successful run without per-file failure, the new snapshot
\* directory mirrors the source: the same relative paths, the same bytes.
C4_SnapshotMirrorsSource ==
    (last.op \in BackupOps /\ last.outcome = "success" /\ ~last.faults) =>
        NewTree = source

\* C5: an incremental backup of a source identical to the latest snapshot
\* ends with "no changes" and creates no snapshot directory, no ledger
\* record and no log line.
C5_IdenticalIsNoOp ==
    (IncrRan /\ ~last.faults /\ source = PriorTree) =>
        /\ last.outcome = "no_changes"
        /\ last.dest = 0
        /\ \A t \in backups : t <= last.prior
        /\ \A i \in 1..Len(backup_history) :
               backup_history[i].timestamp <= last.prior
        /\ \A i \in 1..Len(history_log) :
               history_log[i].timestamp <= last.prior

\* C6: an incremental backup against an existing backup root without a
\* snapshot directory takes the step a full backup of the same source
\* takes: the same snapshot directory, ledger, log and outcome; when it
\* succeeds there is one more ledger record, whose is_incremental is false
\* and whose based_on is empty.
C6_NoPriorIsFull ==
    [][ ( /\ running /\ rootExists /\ backups = {}
          /\ last'.op = "incremental_backup" )
        =>
        ( /\ \/ MissingSource("incremental_backup")
             \/ \E order \in Orders :
                \E bad \in SUBSET Paths :
                \E wfail \in SUBSET Paths :
                    FullBackup("incremental_backup", order, bad, wfail)
          /\ srcExists =>
                /\ last'.outcome = "success"
                /\ DOMAIN snaps' = {last'.dest}
                /\ \A p \in Paths : snaps'[last'.dest][p] \in {0, source[p]}
                /\ ~last'.faults => snaps'[last'.dest] = source
                /\ Len(backup_history') = Len(backup_history) + 1
                /\ ~backup_history'[Len(backup_history')].is_incremental
                /\ backup_history'[Len(backup_history')].based_on = ""
                /\ history_log'[Len(history_log')].kind = "full" ) ]_vars

C6_Witness ==
    /\ last.op = "incremental_backup"
    /\ last.outcome = "success"
    /\ last.prior = 0
    /\ Files(source) # {}
    /\ NewTree = source
    /\ Len(backup_history) = 1
    /\ ~backup_history[1].is_incremental

\* C7: when hard links cannot be made, a file unchanged since the prior
\* snapshot is in the new snapshot with its content, a file copied from the
\* source keeps the source's content, and the run is recorded.
C7_LinkFailureFallsBack ==
    (IncrDone /\ ~last.linkOK /\ ~last.faults) =>
        /\ \A p \in Files(source) :
               source[p] = PriorTree[p] => NewTree[p] = source[p]
        /\ \A p \in last.copied : NewTree[p] = source[p]
        /\ Len(backup_history) > 0
        /\ backup_history[Len(backup_history)].timestamp = last.dest

\* C8: with the source root missing, a full and an incremental backup
\* report failure and change neither the backup root, the ledger nor the
\* log.
C8_MissingSourceChangesNothing ==
    [][ (running /\ ~srcExists /\ last'.op \in BackupOps) =>
            /\ last'.outcome = "failure"
            /\ UNCHANGED << rootExists, snaps, backup_history, history_log >>
      ]_vars

C8_Witness ==
    /\ last.op \in BackupOps
    /\ last.outcome = "failure"
    /\ ~srcExists
    /\ backups # {}
    /\ backup_history # << >>

\* C9: the ledger only grows at its end: a run that completes appends one
\* record (not incremental and based on nothing for a full run, incremental
\* and based on the latest prior snapshot directory for an incremental
\* run), and any other step leaves the ledger as it is.
C9_LedgerAppendOnly ==
    [][ IF last'.op \in BackupOps /\ last'.outcome = "success"
        THEN /\ Len(backup_history') = Len(backup_history) + 1
             /\ SubSeq(backup_history', 1, Len(backup_history))
                    = backup_history
             /\ LET r == backup_history'[Len(backup_history')]
                IN  IF last'.op = "create_backup" \/ backups = {}
                    THEN ~r.is_incremental /\ r.based_on = ""
                    ELSE /\ r.is_incremental
                         /\ r.based_on = SnapName(Latest(backups))
        ELSE backup_history' = backup_history ]_vars

C9_Witness ==
    /\ Len(backup_history) = 2
    /\ ~backup_history[1].is_incremental
    /\ backup_history[2].is_incremental
    /\ backup_history[2].based_on = SnapName(1)
    /\ last.outcome = "no_changes"

\* C10: every invocation of a backup operation returns an outcome to its
\* caller: no fault leaves the invocation.
C10_AlwaysReturns ==
    last.op \in BackupOps =>
        /\ last.outcome \in {"success", "no_changes", "failure"}
        /\ running

====
